---- MODULE Spec2Model ----
(***************************************************************************)
(* Model of lambda_src/handler.py: the Lambda proxy handler that forwards  *)
(* a prompt to bedrock.invoke_model and reshapes the answer.               *)
(*                                                                         *)
(* Python values are records [t, n, s]: t is the type tag, n the numeric   *)
(* payload (floats are kept in tenths: 0.2 is n = 2), s the string payload.*)
(* A JSON text is a record [enc, doc]: enc tells whether the text is the   *)
(* plain serialisation of doc or its base64 encoding.                      *)
(***************************************************************************)
EXTENDS Integers, Sequences, FiniteSets, TLC

\* ------------------------------------------------------------------ bounds
\* Longest content list the remote result carries in the model.
MaxBlocks == 2

\* ---------------------------------------------------------- Python values
Absent   == [t |-> "absent", n |-> 0, s |-> ""]
None     == [t |-> "none",   n |-> 0, s |-> ""]
PyInt(i)   == [t |-> "int",   n |-> i, s |-> ""]
PyFloat(d) == [t |-> "float", n |-> d, s |-> ""]
PyStr(x)   == [t |-> "str",   n |-> 0, s |-> x]
PyBool(b)  == [t |-> "bool",  n |-> IF b THEN 1 ELSE 0, s |-> ""]
PyList(k)  == [t |-> "list",  n |-> k, s |-> ""]

\* Python truthiness, as used by `or`.
Truthy(v) ==
  CASE v.t \in {"absent", "none"} -> FALSE
    [] v.t = "str"                -> v.s # ""
    [] OTHER                      -> v.n # 0

\* dict.get(key, default): the default replaces a missing key only.
Get(v, default) == IF v.t = "absent" THEN default ELSE v

\* dict.get(key): a missing key reads as None.
Get1(v) == Get(v, None)

\* ------------------------------------------------------- program constants
DefaultPrompt == PyStr("Say hello in one sentence.")
DefaultMaxTokens == 256
\* 0.2, in tenths
DefaultTemperature == 2
AnthropicVersion == "bedrock-2023-05-31"
Hint == "Ensure the model is enabled in this region and your IAM role allows bedrock:InvokeModel."
ContentType == "application/json"

\* ------------------------------------------------------ numeric coercions
\* Strings Python reads as an integer literal / as a float literal (tenths).
IntLiteral(x)   == CASE x = "10" -> 10 [] OTHER -> 0
IsIntLiteral(x) == x \in {"10"}
FloatLiteral(x)   == CASE x = "0.5" -> 5 [] x = "10" -> 100 [] OTHER -> 0
IsFloatLiteral(x) == x \in {"0.5", "10"}

\* Truncation toward zero of a value held in tenths.
Trunc(d) == IF d >= 0 THEN d \div 10 ELSE 0 - ((0 - d) \div 10)

\* int(v): [ok, val, err]
ToInt(v) ==
  CASE v.t \in {"int", "bool"} -> [ok |-> TRUE, val |-> v.n, err |-> ""]
    [] v.t = "float"           -> [ok |-> TRUE, val |-> Trunc(v.n), err |-> ""]
    [] v.t = "str" ->
         IF IsIntLiteral(v.s)
         THEN [ok |-> TRUE, val |-> IntLiteral(v.s), err |-> ""]
         ELSE [ok |-> FALSE, val |-> 0,
               err |-> "invalid literal for int() with base 10: '" \o v.s \o "'"]
    [] v.t = "none" ->
         [ok |-> FALSE, val |-> 0,
          err |-> "int() argument must be a string, a bytes-like object or a real number, not 'NoneType'"]
    [] OTHER ->
         [ok |-> FALSE, val |-> 0,
          err |-> "int() argument must be a string, a bytes-like object or a real number, not 'list'"]

\* float(v): [ok, val (tenths), err]
ToFloat(v) ==
  CASE v.t \in {"int", "bool"} -> [ok |-> TRUE, val |-> 10 * v.n, err |-> ""]
    [] v.t = "float"           -> [ok |-> TRUE, val |-> v.n, err |-> ""]
    [] v.t = "str" ->
         IF IsFloatLiteral(v.s)
         THEN [ok |-> TRUE, val |-> FloatLiteral(v.s), err |-> ""]
         ELSE [ok |-> FALSE, val |-> 0,
               err |-> "could not convert string to float: '" \o v.s \o "'"]
    [] v.t = "none" ->
         [ok |-> FALSE, val |-> 0,
          err |-> "float() argument must be a string or a real number, not 'NoneType'"]
    [] OTHER ->
         [ok |-> FALSE, val |-> 0,
          err |-> "float() argument must be a string or a real number, not 'list'"]

\* ------------------------------------------------------------- JSON texts
Dumps(x)     == [enc |-> "plain", doc |-> x]
B64Encode(t) == [enc |-> "b64", doc |-> t.doc]

JsonObject(p, m, t) ==
  [kind |-> "object", prompt |-> p, max_tokens |-> m, temperature |-> t]
EmptyObject  == JsonObject(Absent, Absent, Absent)
JsonArray    == [kind |-> "array", prompt |-> Absent, max_tokens |-> Absent,
                 temperature |-> Absent]
MalformedDoc == [kind |-> "malformed", prompt |-> Absent, max_tokens |-> Absent,
                 temperature |-> Absent]

JSONDecodeError == "Expecting value: line 1 column 1 (char 0)"

\* json.loads(text): [ok, val, err].  base64 text of a JSON document starts
\* with a letter and is no JSON document itself.
Loads(t) ==
  IF t.enc = "plain" /\ t.doc.kind # "malformed"
  THEN [ok |-> TRUE, val |-> t.doc, err |-> ""]
  ELSE [ok |-> FALSE, val |-> t.doc, err |-> JSONDecodeError]

\* ---------------------------------------------------------- inbound events
\* event["body"]: key missing, None, "" or a text.
BodyMissing == [t |-> "missing", text |-> Dumps(MalformedDoc)]
BodyNone    == [t |-> "none",    text |-> Dumps(MalformedDoc)]
BodyEmpty   == [t |-> "empty",   text |-> Dumps(MalformedDoc)]
BodyText(x) == [t |-> "text",    text |-> x]

PromptVals      == {Absent, None, PyStr(""), PyStr("Hi"), PyInt(7)}
MaxTokensVals   == {Absent, None, PyInt(10), PyFloat(107), PyStr("10"),
                    PyStr("abc"), PyBool(TRUE), PyList(1)}
TemperatureVals == {Absent, None, PyInt(1), PyFloat(0), PyStr("0.5"),
                    PyStr("abc")}

Docs == {JsonObject(p, m, t) : p \in PromptVals, m \in MaxTokensVals,
                               t \in TemperatureVals}
          \cup {JsonArray, MalformedDoc}
Texts == {Dumps(d) : d \in Docs}
           \cup {B64Encode(Dumps(d)) : d \in Docs \ {MalformedDoc}}
Bodies == {BodyMissing, BodyNone, BodyEmpty} \cup {BodyText(x) : x \in Texts}
Flags  == {"absent", "false", "true"}
Events == [isBase64Encoded : Flags, body : Bodies]
NoEvent == [isBase64Encoded |-> "absent", body |-> BodyMissing]

\* ------------------------------------------------- remote generation results
Block(ht, ty, hx, tx) == [hasType |-> ht, type |-> ty, hasText |-> hx, text |-> tx]
Blocks == {Block(TRUE, "text", TRUE, "Hel"), Block(TRUE, "text", TRUE, "lo!"),
           Block(TRUE, "text", FALSE, ""), Block(TRUE, "tool_use", TRUE, "skip"),
           Block(FALSE, "", TRUE, "untyped")}
ContentLists == UNION {[1..k -> Blocks] : k \in 0..MaxBlocks}
NoUsage == {}
Usages  == {NoUsage, {<<"input_tokens", 3>>, <<"output_tokens", 2>>}}

Payload(k, hc, c, hu, u) ==
  [kind |-> k, hasContent |-> hc, content |-> c, hasUsage |-> hu, usage |-> u]
Payloads ==
  {Payload("object", TRUE, c, hu, u) : c \in ContentLists, hu \in BOOLEAN, u \in Usages}
    \cup {Payload("object", FALSE, <<>>, hu, u) : hu \in BOOLEAN, u \in Usages}
    \cup {Payload("array", FALSE, <<>>, FALSE, NoUsage),
          Payload("malformed", FALSE, <<>>, FALSE, NoUsage)}
WellFormedPayloads == {p \in Payloads : p.hasUsage \/ p.usage = NoUsage}

RaiseMessages == {"AccessDeniedException: not authorized to perform bedrock:InvokeModel",
                  "ThrottlingException: Too many requests"}
Returns(p) == [kind |-> "return", msg |-> "", body |-> Dumps(p)]
Raises(m)  == [kind |-> "raise", msg |-> m,
               body |-> Dumps(Payload("malformed", FALSE, <<>>, FALSE, NoUsage))]
Outcomes  == {Returns(p) : p \in WellFormedPayloads} \cup {Raises(m) : m \in RaiseMessages}
NoOutcome == [kind |-> "none", msg |-> "",
              body |-> Dumps(Payload("malformed", FALSE, <<>>, FALSE, NoUsage))]

\* ------------------------------------------------------ handler, step by step
NameErrorBase64 == "name 'base64' is not defined"
AttributeErrorGet == "'list' object has no attribute 'get'"

\* event.get("isBase64Encoded")
IsFlagged(ev) == ev.isBase64Encoded = "true"

\* event.get("body", "") or "{}"
RawBody(ev) == IF ev.body.t = "text" THEN ev.body.text ELSE Dumps(EmptyObject)

\* Lines 13-16: the body as parsed JSON, [ok, val, err].  The module never
\* imports base64, so evaluating base64.b64decode raises NameError before
\* anything is decoded.
ParseBody(ev) ==
  IF IsFlagged(ev)
  THEN [ok |-> FALSE, val |-> MalformedDoc, err |-> NameErrorBase64]
  ELSE Loads(RawBody(ev))

\* Variant of ResolvePrompt: body.get("prompt", default), which defaults a
\* missing key only.
ResolvePrompt_MissingOnly(body) == Get(body.prompt, DefaultPrompt)

\* Line 18: body.get("prompt") or "Say hello in one sentence."
ResolvePrompt(body) ==
  IF Truthy(Get1(body.prompt)) THEN body.prompt ELSE DefaultPrompt

\* Variant of ResolveMaxTokens: a value that does not convert is replaced by
\* the default.
ResolveMaxTokens_Lenient(body) ==
  LET r == ToInt(Get(body.max_tokens, PyInt(DefaultMaxTokens)))
  IN  IF r.ok THEN r ELSE [ok |-> TRUE, val |-> DefaultMaxTokens, err |-> ""]

\* Line 19: int(body.get("max_tokens", 256))
ResolveMaxTokens(body) == ToInt(Get(body.max_tokens, PyInt(DefaultMaxTokens)))

\* Line 20: float(body.get("temperature", 0.2))
ResolveTemperature(body) ==
  ToFloat(Get(body.temperature, PyFloat(DefaultTemperature)))

\* Lines 23-30: the Messages API request.
Request(p, m, t) ==
  [anthropic_version |-> AnthropicVersion, max_tokens |-> m, temperature |-> t,
   messages |-> <<[role |-> "user",
                   content |-> <<[type |-> "text", text |-> p]>>]>>]
NoRequest == Request(Absent, 0, 0)

\* Lines 13-30 as a whole: [ok, request, err]; the first exception wins.
BuildRequest(ev) ==
  LET parsed == ParseBody(ev)
      body   == parsed.val
      mt     == ResolveMaxTokens(body)
      temp   == ResolveTemperature(body)
  IN  CASE ~parsed.ok            -> [ok |-> FALSE, request |-> NoRequest, err |-> parsed.err]
        [] body.kind # "object"  -> [ok |-> FALSE, request |-> NoRequest, err |-> AttributeErrorGet]
        [] ~mt.ok                -> [ok |-> FALSE, request |-> NoRequest, err |-> mt.err]
        [] ~temp.ok              -> [ok |-> FALSE, request |-> NoRequest, err |-> temp.err]
        [] OTHER -> [ok |-> TRUE, err |-> "",
                     request |-> Request(ResolvePrompt(body), mt.val, temp.val)]

\* Variant of ExtractText: the text of the first "text" block only.
RECURSIVE ExtractText_FirstOnly(_)
ExtractText_FirstOnly(content) ==
  IF content = <<>> THEN ""
  ELSE LET block == Head(content)
       IN  IF block.hasType /\ block.type = "text"
           THEN (IF block.hasText THEN block.text ELSE "")
           ELSE ExtractText_FirstOnly(Tail(content))

\* Lines 39-42: concatenate the text of the blocks tagged "text".
RECURSIVE ExtractText(_)
ExtractText(content) ==
  IF content = <<>> THEN ""
  ELSE LET block == Head(content)
       IN  (IF block.hasType /\ block.type = "text"
            THEN (IF block.hasText THEN block.text ELSE "")
            ELSE "") \o ExtractText(Tail(content))

\* Variant of Result: the usage counters of the payload are not passed on.
Result_NoUsage(model, p, completion, usage) ==
  [keys |-> {"model", "prompt", "completion", "usage"},
   model |-> model, prompt |-> p, completion |-> completion, usage |-> NoUsage,
   error |-> "", hint |-> ""]

\* Lines 44-49
Result(model, p, completion, usage) ==
  [keys |-> {"model", "prompt", "completion", "usage"},
   model |-> model, prompt |-> p, completion |-> completion, usage |-> usage,
   error |-> "", hint |-> ""]

\* Lines 61-64
ErrorBody(msg) ==
  [keys |-> {"error", "hint"},
   model |-> "", prompt |-> Absent, completion |-> "", usage |-> NoUsage,
   error |-> msg, hint |-> Hint]

\* Lines 51-55 and 58-65
Envelope(status, b) ==
  [statusCode |-> status, headers |-> {<<"content-type", ContentType>>},
   body |-> Dumps(b)]

\* Lines 37-55 after invoke_model returned resp: [ok, envelope, err]
HandleResponse(model, request, resp) ==
  LET loaded  == Loads(resp.body)
      payload == loaded.val
      prompt_ == request.messages[1].content[1].text
      text    == ExtractText(IF payload.hasContent THEN payload.content ELSE <<>>)
      usage   == IF payload.hasUsage THEN payload.usage ELSE NoUsage
  IN  CASE ~loaded.ok -> [ok |-> FALSE, err |-> loaded.err,
                          envelope |-> Envelope(0, ErrorBody(""))]
        [] payload.kind # "object" -> [ok |-> FALSE, err |-> AttributeErrorGet,
                                       envelope |-> Envelope(0, ErrorBody(""))]
        [] OTHER -> [ok |-> TRUE, err |-> "",
                     envelope |-> Envelope(200, Result(model, prompt_, text, usage))]

\* Variant of FailureEnvelope: the error path forgets the headers.
FailureEnvelope_NoHeaders(msg) ==
  [statusCode |-> 500, headers |-> {}, body |-> Dumps(ErrorBody(msg))]

\* Lines 57-65
FailureEnvelope(msg) == Envelope(500, ErrorBody(msg))
NoEnvelope == Envelope(0, ErrorBody(""))

\* ------------------------------------------------------------------- state
Ctx == {"a", "b"}
ModelIds == {"anthropic.claude-3-haiku-20240307-v1:0", "anthropic.claude-v2"}
Regions  == {"us-east-1"}

VARIABLES
  MODEL_ID,  \* module global, line 6
  bedrock,   \* module global, line 5: the client, identified by its region
  pc,        \* per execution context: position of the invocation
  event,     \* the invocation's argument
  request,   \* local `request`
  sent,      \* the invoke_model calls this invocation made: <<modelId, body>>
  resp,      \* what invoke_model did: returned a body or raised
  err,       \* the exception caught at line 57
  envelope,  \* the return value being built
  returned   \* the envelopes this invocation returned

vars == <<MODEL_ID, bedrock, pc, event, request, sent, resp, err, envelope, returned>>
globals == <<MODEL_ID, bedrock>>

Init ==
  /\ MODEL_ID \in ModelIds
  /\ bedrock \in Regions
  /\ pc = [c \in Ctx |-> "idle"]
  /\ event = [c \in Ctx |-> NoEvent]
  /\ request = [c \in Ctx |-> NoRequest]
  /\ sent = [c \in Ctx |-> <<>>]
  /\ resp = [c \in Ctx |-> NoOutcome]
  /\ err = [c \in Ctx |-> ""]
  /\ envelope = [c \in Ctx |-> NoEnvelope]
  /\ returned = [c \in Ctx |-> <<>>]

\* Line 11: the platform calls lambda_handler(event, context) in context c;
\* the call gets a fresh frame.
Receive(c, E) ==
  /\ pc[c] = "idle"
  /\ \E ev \in E : event' = [event EXCEPT ![c] = ev]
  /\ pc' = [pc EXCEPT ![c] = "received"]
  /\ UNCHANGED <<globals, request, sent, resp, err, envelope, returned>>

\* Lines 13-30 raise: control jumps to the except clause at line 57.
RejectInput(c) ==
  /\ pc[c] = "received"
  /\ ~BuildRequest(event[c]).ok
  /\ err' = [err EXCEPT ![c] = BuildRequest(event[c]).err]
  /\ pc' = [pc EXCEPT ![c] = "failed"]
  /\ UNCHANGED <<globals, event, request, sent, resp, envelope, returned>>

\* Lines 13-35: the request is built and bedrock.invoke_model is called;
\* the invocation blocks until the call returns or raises.
InvokeModel(c) ==
  /\ pc[c] = "received"
  /\ BuildRequest(event[c]).ok
  /\ request' = [request EXCEPT ![c] = BuildRequest(event[c]).request]
  /\ sent' = [sent EXCEPT ![c] =
                Append(@, <<MODEL_ID, Dumps(BuildRequest(event[c]).request)>>)]
  /\ pc' = [pc EXCEPT ![c] = "invoked"]
  /\ UNCHANGED <<globals, event, resp, err, envelope, returned>>

\* Lines 32-55: invoke_model returns; the response is read and reshaped.
RemoteReturns(c, O) ==
  /\ pc[c] = "invoked"
  /\ \E o \in O :
       /\ o.kind = "return"
       /\ resp' = [resp EXCEPT ![c] = o]
       /\ LET h == HandleResponse(MODEL_ID, request[c], o)
          IN  IF h.ok
              THEN /\ envelope' = [envelope EXCEPT ![c] = h.envelope]
                   /\ pc' = [pc EXCEPT ![c] = "succeeded"]
                   /\ UNCHANGED err
              ELSE /\ err' = [err EXCEPT ![c] = h.err]
                   /\ pc' = [pc EXCEPT ![c] = "failed"]
                   /\ UNCHANGED envelope
  /\ UNCHANGED <<globals, event, request, sent, returned>>

\* Variant of RemoteRaises: the exception's message is replaced by a generic
\* one.
RemoteRaises_Generic(c, O) ==
  /\ pc[c] = "invoked"
  /\ \E o \in O :
       /\ o.kind = "raise"
       /\ resp' = [resp EXCEPT ![c] = o]
  /\ err' = [err EXCEPT ![c] = "Internal Server Error"]
  /\ pc' = [pc EXCEPT ![c] = "failed"]
  /\ UNCHANGED <<globals, event, request, sent, envelope, returned>>

\* Variant of RemoteRaises: a failed call is tried once more before the
\* exception is let through.
RemoteRaises_Retry(c, O) ==
  /\ pc[c] = "invoked"
  /\ \E o \in O :
       /\ o.kind = "raise"
       /\ resp' = [resp EXCEPT ![c] = o]
       /\ err' = [err EXCEPT ![c] = o.msg]
  /\ sent' = [sent EXCEPT ![c] = Append(@, <<MODEL_ID, Dumps(request[c])>>)]
  /\ pc' = [pc EXCEPT ![c] = "failed"]
  /\ UNCHANGED <<globals, event, request, envelope, returned>>

\* Lines 32-35 and 57: invoke_model raises.
RemoteRaises(c, O) ==
  /\ pc[c] = "invoked"
  /\ \E o \in O :
       /\ o.kind = "raise"
       /\ resp' = [resp EXCEPT ![c] = o]
       /\ err' = [err EXCEPT ![c] = o.msg]
  /\ pc' = [pc EXCEPT ![c] = "failed"]
  /\ UNCHANGED <<globals, event, request, sent, envelope, returned>>

\* Variant of ReturnSuccess: the handler rebinds the global MODEL_ID.
ReturnSuccess_SwitchModel(c) ==
  /\ pc[c] = "succeeded"
  /\ returned' = [returned EXCEPT ![c] = Append(@, envelope[c])]
  /\ pc' = [pc EXCEPT ![c] = "responded"]
  /\ MODEL_ID' = CHOOSE m \in ModelIds : m # MODEL_ID
  /\ UNCHANGED <<bedrock, event, request, sent, resp, err, envelope>>

\* Lines 51-55: return of the try block.
ReturnSuccess(c) ==
  /\ pc[c] = "succeeded"
  /\ returned' = [returned EXCEPT ![c] = Append(@, envelope[c])]
  /\ pc' = [pc EXCEPT ![c] = "responded"]
  /\ UNCHANGED <<globals, event, request, sent, resp, err, envelope>>

\* Variant of ReturnFailure: the except clause runs the handler again instead
\* of returning.
ReturnFailure_Retry(c) ==
  /\ pc[c] = "failed"
  /\ pc' = [pc EXCEPT ![c] = "received"]
  /\ UNCHANGED <<globals, event, request, sent, resp, err, envelope, returned>>

\* Lines 57-65: return of the except clause.
ReturnFailure(c) ==
  /\ pc[c] = "failed"
  /\ envelope' = [envelope EXCEPT ![c] = FailureEnvelope(err[c])]
  /\ returned' = [returned EXCEPT ![c] = Append(@, FailureEnvelope(err[c]))]
  /\ pc' = [pc EXCEPT ![c] = "responded"]
  /\ UNCHANGED <<globals, event, request, sent, resp, err>>

\* The platform has consumed the response; the frame of the finished call is
\* gone and the context is free for the next invocation.
Release(c) ==
  /\ pc[c] = "responded"
  /\ pc' = [pc EXCEPT ![c] = "idle"]
  /\ event' = [event EXCEPT ![c] = NoEvent]
  /\ request' = [request EXCEPT ![c] = NoRequest]
  /\ sent' = [sent EXCEPT ![c] = <<>>]
  /\ resp' = [resp EXCEPT ![c] = NoOutcome]
  /\ err' = [err EXCEPT ![c] = ""]
  /\ envelope' = [envelope EXCEPT ![c] = NoEnvelope]
  /\ returned' = [returned EXCEPT ![c] = <<>>]
  /\ UNCHANGED globals

\* One execution context, every event and every remote behaviour.
Next ==
  \/ Receive("a", Events)
  \/ RejectInput("a")
  \/ InvokeModel("a")
  \/ RemoteReturns("a", Outcomes)
  \/ RemoteRaises("a", Outcomes)
  \/ ReturnSuccess("a")
  \/ ReturnFailure("a")
  \/ Release("a")

Spec == Init /\ [][Next]_vars

\* Two execution contexts sharing the module globals, over a sample of the
\* events and of the remote behaviours.
HiObject  == JsonObject(PyStr("Hi"), PyInt(10), PyFloat(0))
BadObject == JsonObject(PyStr("Hi"), PyStr("abc"), Absent)
SampleDocs == {EmptyObject, HiObject, BadObject, JsonArray}
SampleEvents ==
  {[isBase64Encoded |-> "false", body |-> BodyText(Dumps(d))] : d \in SampleDocs}
    \cup {[isBase64Encoded |-> "true", body |-> BodyText(B64Encode(Dumps(d)))] :
            d \in SampleDocs}
    \cup {[isBase64Encoded |-> "absent", body |-> BodyText(Dumps(MalformedDoc))],
          [isBase64Encoded |-> "absent", body |-> BodyEmpty],
          [isBase64Encoded |-> "true", body |-> BodyMissing]}
HelloPayload ==
  Payload("object", TRUE,
          <<Block(TRUE, "text", TRUE, "Hel"), Block(TRUE, "text", TRUE, "lo!")>>,
          TRUE, {<<"input_tokens", 3>>, <<"output_tokens", 2>>})
SampleOutcomes ==
  {Returns(HelloPayload),
   Returns(Payload("object", FALSE, <<>>, FALSE, NoUsage)),
   Returns(Payload("malformed", FALSE, <<>>, FALSE, NoUsage)),
   Raises("ThrottlingException: Too many requests")}

NextSeq ==
  \E c \in Ctx :
    \/ Receive(c, SampleEvents)
    \/ RejectInput(c)
    \/ InvokeModel(c)
    \/ RemoteReturns(c, SampleOutcomes)
    \/ RemoteRaises(c, SampleOutcomes)
    \/ ReturnSuccess(c)
    \/ ReturnFailure(c)
    \/ Release(c)

SeqSpec == Init /\ [][NextSeq]_vars

\* The interpreter runs the handler's own steps whenever they are possible,
\* and the remote call is assumed to return or raise eventually.
HandlerStep(c) ==
  RejectInput(c) \/ InvokeModel(c) \/ ReturnSuccess(c) \/ ReturnFailure(c)
RemoteStep(c) == RemoteReturns(c, SampleOutcomes) \/ RemoteRaises(c, SampleOutcomes)

LiveSpec ==
  /\ Init /\ [][NextSeq]_vars
  /\ \A c \in Ctx : WF_vars(HandlerStep(c)) /\ WF_vars(RemoteStep(c))

\* ================================================================ properties
Status(c)   == returned[c][1].statusCode
RespBody(c) == returned[c][1].body.doc
SuccessKeys == {"model", "prompt", "completion", "usage"}
FailureKeys == {"error", "hint"}
Responded(c) == pc[c] = "responded"

\* C1: every invocation, whatever the event and whatever the remote call does,
\* returns exactly one envelope (none before it responds); the envelope has
\* the header content-type: application/json, status 200 or 500, the success
\* shape {model, prompt, completion, usage} exactly when the status is 200 and
\* the failure shape {error, hint} exactly when it is 500.
C1_OneEnvelope ==
  \A c \in Ctx :
    /\ Len(returned[c]) = (IF Responded(c) THEN 1 ELSE 0)
    /\ Responded(c) =>
         /\ returned[c][1].headers = {<<"content-type", "application/json">>}
         /\ Status(c) \in {200, 500}
         /\ returned[c][1].body.enc = "plain"
         /\ RespBody(c).keys \in {SuccessKeys, FailureKeys}
         /\ (RespBody(c).keys = SuccessKeys) <=> (Status(c) = 200)
         /\ (RespBody(c).keys = FailureKeys) <=> (Status(c) = 500)

\* An event flagged as base64 got its one envelope, a failure.
C1_Witness ==
  /\ Responded("a") /\ event["a"].isBase64Encoded = "true"
  /\ Len(returned["a"]) = 1 /\ Status("a") = 500

\* The causes of failure the claim C2 lists, read off the event and the
\* remote behaviour.
BodyParses(ev)    == ParseBody(ev).ok
FieldsCoerce(ev)  ==
  /\ ToInt(Get(ParseBody(ev).val.max_tokens, PyInt(256))).ok
  /\ ToFloat(Get(ParseBody(ev).val.temperature, PyFloat(2))).ok
RemoteFailed(o)   == o.kind = "raise" \/ (o.kind = "return" /\ ~Loads(o.body).ok)

\* C2 (as stated): when the body parses, the numeric fields coerce and the
\* remote call does not fail (it neither raises nor returns an unparseable
\* result), the response has status 200.
C2_AsStated ==
  \A c \in Ctx :
    (Responded(c) /\ BodyParses(event[c]) /\ FieldsCoerce(event[c])
       /\ ~RemoteFailed(resp[c]))
      => Status(c) = 200

\* C2 (amended): when the body parses to a JSON object, the numeric fields
\* coerce and the remote call returns a result that parses to a JSON object,
\* the response has status 200 and its body holds model = the configured
\* model identifier, prompt = the prompt sent in the request (the body's
\* prompt, or the default when the body's is absent or falsy), completion =
\* the text extracted from the remote result, usage = the remote result's
\* usage counters, or the empty mapping when it has none.
C2_SuccessEnvelope ==
  \A c \in Ctx :
    (/\ Responded(c) /\ BodyParses(event[c])
     /\ ParseBody(event[c]).val.kind = "object" /\ FieldsCoerce(event[c])
     /\ resp[c].kind = "return" /\ Loads(resp[c].body).ok
     /\ Loads(resp[c].body).val.kind = "object")
      => LET body    == ParseBody(event[c]).val
             payload == resp[c].body.doc
         IN  /\ Status(c) = 200
             /\ RespBody(c).keys = SuccessKeys
             /\ RespBody(c).model = MODEL_ID
             /\ Len(sent[c]) = 1
             /\ RespBody(c).prompt = sent[c][1][2].doc.messages[1].content[1].text
             /\ RespBody(c).prompt =
                  (IF body.prompt \in {Absent, None, PyStr("")}
                   THEN PyStr("Say hello in one sentence.") ELSE body.prompt)
             /\ RespBody(c).completion =
                  ExtractText(IF payload.hasContent THEN payload.content ELSE <<>>)
             /\ RespBody(c).usage = (IF payload.hasUsage THEN payload.usage ELSE {})

\* A success that carries the remote usage counters and a defaulted prompt.
C2_Witness ==
  /\ Responded("a") /\ Status("a") = 200
  /\ event["a"].body = BodyText(Dumps(JsonObject(PyStr(""), PyStr("10"), PyInt(1))))
  /\ RespBody("a").usage = {<<"input_tokens", 3>>, <<"output_tokens", 2>>}
  /\ RespBody("a").prompt = DefaultPrompt

\* Event e carries, base64-encoded and flagged, the JSON object that event f
\* carries as plain text with the flag unset.
EncodedTwin(e, f) ==
  /\ e.isBase64Encoded = "true" /\ f.isBase64Encoded \in {"false", "absent"}
  /\ e.body.t = "text" /\ f.body.t = "text"
  /\ f.body.text.enc = "plain" /\ f.body.text.doc.kind = "object"
  /\ e.body.text = B64Encode(f.body.text)

\* C3: an event whose body is the base64 encoding of a JSON object, with
\* isBase64Encoded set, has the same outcome as the event carrying the object
\* unencoded: the same calls to the remote procedure and, when the remote
\* procedure behaved the same, the same response.
C3_Base64Equivalent ==
  \A c, d \in Ctx :
    (Responded(c) /\ Responded(d) /\ EncodedTwin(event[c], event[d]))
      => /\ sent[c] = sent[d]
         /\ (resp[c] = resp[d] => returned[c] = returned[d])

\* C4: an empty or missing body sends the request with prompt "Say hello in
\* one sentence.", max_tokens 256 and temperature 0.2; in every request sent,
\* each field is defaulted on its own (prompt when absent or falsy,
\* max_tokens when absent, temperature when absent) and a field that is
\* present keeps its coerced value.
C4_Defaults ==
  \A c \in Ctx :
    LET ev   == event[c]
        body == RawBody(ev).doc
        req  == sent[c][1][2].doc
    IN  /\ (pc[c] \notin {"idle", "received"} /\ ev.isBase64Encoded # "true"
              /\ ev.body.t \in {"missing", "none", "empty"})
            => /\ Len(sent[c]) = 1
               /\ req.messages[1].content[1].text = PyStr("Say hello in one sentence.")
               /\ req.max_tokens = 256
               /\ req.temperature = 2
        /\ Len(sent[c]) >= 1 =>
             /\ req.messages[1].content[1].text =
                  (IF Truthy(body.prompt) THEN body.prompt
                   ELSE PyStr("Say hello in one sentence."))
             /\ req.max_tokens =
                  (IF body.max_tokens = Absent THEN 256 ELSE ToInt(body.max_tokens).val)
             /\ req.temperature =
                  (IF body.temperature = Absent THEN 2 ELSE ToFloat(body.temperature).val)

\* A request sent with a falsy prompt defaulted, max_tokens kept (10.7 read as
\* 10) and temperature defaulted.
C4_Witness ==
  /\ pc["a"] = "invoked"
  /\ event["a"].body =
       BodyText(Dumps(JsonObject(PyStr(""), PyFloat(107), Absent)))
  /\ request["a"] = Request(DefaultPrompt, 10, 2)

\* The texts of the blocks tagged "text", in order.
IsTextBlock(b) == b.hasType /\ b.type = "text"
RECURSIVE Concat(_)
Concat(blocks) ==
  IF Len(blocks) = 0 THEN ""
  ELSE Concat(SubSeq(blocks, 1, Len(blocks) - 1))
         \o (IF blocks[Len(blocks)].hasText THEN blocks[Len(blocks)].text ELSE "")

InputFailure(ev) ==
  LET t == RawBody(ev)
  IN  \/ t.doc.kind = "malformed"
      \/ t.enc # (IF ev.isBase64Encoded = "true" THEN "b64" ELSE "plain")
      \/ /\ t.doc.kind = "object"
         /\ \/ t.doc.max_tokens \in {None, PyStr("abc"), PyList(1)}
            \/ t.doc.temperature \in {None, PyStr("abc")}

\* C6: every input failure (malformed JSON body, max_tokens or temperature
\* that does not convert) gives status 500 with a non-empty error and the
\* static hint, and no request is sent in its place; every failure, whatever
\* its cause, carries the same hint.
C6_InputFailure ==
  \A c \in Ctx :
    /\ InputFailure(event[c]) => sent[c] = <<>> /\ pc[c] # "succeeded"
    /\ (Responded(c) /\ InputFailure(event[c])) =>
         /\ Status(c) = 500
         /\ RespBody(c).keys = FailureKeys
         /\ RespBody(c).error # ""
    /\ (Responded(c) /\ Status(c) # 200) =>
         /\ RespBody(c).hint # ""
         /\ RespBody(c).hint = "Ensure the model is enabled in this region and your IAM role allows bedrock:InvokeModel."

\* A max_tokens that does not convert was answered with the ValueError.
C6_Witness ==
  /\ Responded("a") /\ Status("a") = 500
  /\ event["a"].isBase64Encoded = "false"
  /\ event["a"].body = BodyText(Dumps(JsonObject(PyStr("Hi"), PyStr("abc"), Absent)))
  /\ RespBody("a").error = "invalid literal for int() with base 10: 'abc'"

\* C7: when the remote call raises with message M the invocation fails: it
\* never reaches the success return, and its response has status 500, the
\* failure shape (no completion) and error = M.
C7_RemoteFailure ==
  \A c \in Ctx :
    resp[c].kind = "raise" =>
      /\ pc[c] \in {"failed", "responded"}
      /\ Responded(c) =>
           /\ Status(c) = 500
           /\ RespBody(c).keys = FailureKeys
           /\ RespBody(c).error = resp[c].msg
           /\ RespBody(c).completion = ""

\* A throttled call was answered with the exception's message.
C7_Witness ==
  /\ Responded("a") /\ resp["a"] = Raises("ThrottlingException: Too many requests")
  /\ RespBody("a").error = "ThrottlingException: Too many requests"

\* C8 (as stated): every invocation, whatever its outcome, calls the remote
\* procedure exactly once, with the configured model identifier and the
\* serialized request.
C8_AsStated ==
  \A c \in Ctx :
    Responded(c) => Len(sent[c]) = 1 /\ sent[c][1] = <<MODEL_ID, Dumps(request[c])>>

\* C8 (amended): an invocation calls the remote procedure at most once, and
\* never again after the call failed; it calls it exactly once, with the
\* configured model identifier and the serialized request, when the request
\* was built (the body was decoded and parsed to an object and the numeric
\* fields converted), and not at all when an exception was raised before.
C8_AtMostOnce ==
  \A c \in Ctx :
    /\ Len(sent[c]) <= 1
    /\ (pc[c] \in {"invoked", "succeeded"} \/ resp[c].kind # "none") =>
         Len(sent[c]) = 1 /\ sent[c][1] = <<MODEL_ID, Dumps(request[c])>>
    /\ (pc[c] \in {"failed", "responded"} /\ BuildRequest(event[c]).ok) =>
         Len(sent[c]) = 1 /\ resp[c].kind # "none"
    /\ ~BuildRequest(event[c]).ok => sent[c] = <<>>

\* A call that raised was answered without a second call.
C8_Witness ==
  /\ Responded("a") /\ resp["a"].kind = "raise" /\ Len(sent["a"]) = 1
  /\ sent["a"][1] = <<MODEL_ID, Dumps(Request(PyStr("Hi"), 10, 5))>>

\* C9: no invocation changes the module globals, and two invocations of the
\* same event that got the same remote behaviour return the same response,
\* whatever ran before them in either execution context.
SameInputs(c, d) ==
  Responded(c) /\ Responded(d) /\ event[c] = event[d] /\ resp[c] = resp[d]
C9_NoPersistentState ==
  /\ [][MODEL_ID' = MODEL_ID /\ bedrock' = bedrock]_vars
  /\ [](\A c, d \in Ctx : SameInputs(c, d) => returned[c] = returned[d])

\* Both contexts answered the same successful request.
C9_Witness ==
  /\ SameInputs("a", "b") /\ Status("a") = 200
  /\ event["a"].body = BodyText(Dumps(HiObject))

\* C10: an invocation moves received -> (succeeded | failed) -> responded:
\* it responds only from succeeded or from failed, never passes from one of
\* the two to the other, returns nothing before it has responded, and, the
\* remote call returning or raising eventually, every invocation received
\* does respond.
InFlight(c) == pc[c] \in {"received", "invoked"}
C10_StateMachine ==
  /\ [][\A c \in Ctx :
          /\ (InFlight(c) /\ ~InFlight(c)') => pc[c]' \in {"succeeded", "failed"}
          /\ pc[c] = "succeeded" => pc[c]' \in {"succeeded", "responded"}
          /\ pc[c] = "failed" => pc[c]' \in {"failed", "responded"}
          /\ (pc[c]' = "responded" /\ pc[c] # "responded")
               => pc[c] \in {"succeeded", "failed"}
          /\ pc[c] = "responded" => ~InFlight(c)' /\ pc[c]' \notin {"succeeded", "failed"}
          /\ pc[c] = "idle" => pc[c]' \in {"idle", "received"}]_vars
  /\ [](\A c \in Ctx : pc[c] # "responded" => returned[c] = <<>>)
  /\ \A c \in Ctx : (pc[c] = "received") ~> (pc[c] = "responded")

\* One context has responded after a failure while the other is waiting for
\* the remote call.
C10_Witness ==
  /\ Responded("a") /\ Status("a") = 500 /\ pc["b"] = "invoked"

====
